---- MODULE Spec2Model ----
(***************************************************************************)
(* Model of the preventive-maintenance work-order backend                  *)
(* (Dyson_WOApp/backend/app): the AI decision orchestrator, the work-order *)
(* HTTP handlers with their service methods, and the notification          *)
(* dispatcher.  Each HTTP handler is one atomic action (requests do not    *)
(* overlap); dates are day numbers, confidences are hundredths.            *)
(***************************************************************************)
EXTENDS Integers, Sequences, FiniteSets, TLC

(* ------------------------------ bounds -------------------------------- *)
NumMachines == 2
MaxWorkOrders == 2
MaxDecisions == 1
MaxDay == 2
\* the day the requests are made on (dates before it are past dates)
StartDay == 1
\* the clock starts on the last day of EpochYear; NewYearDay is the day
\* number of the following 1 January
EpochYear == 2024
NewYearDay == 1
\* next PM dates lie at most this many days before or after the current day
MaxDaysUntil == 35
MaxLogs == 2
MaxHistory == 2
MaxCalls == 2
LateDay == 40

(* ------------------------- values and enumerations -------------------- *)
\* a NULL date column / a NULL integer foreign key / a NULL string column
NoDate == -1
NoId == 0
NoStr == "None"

Statuses == {"Draft", "Pending_Approval", "Approved", "Completed", "Cancelled"}
ActiveStatuses_Unapproved == {"Draft", "Pending_Approval"}
ActiveStatuses == {"Draft", "Pending_Approval", "Approved"}
ValidDecisions == {"CREATE_WORK_ORDER", "WAIT", "SEND_NOTIFICATION"}
ValidPriorities == {"Low", "Medium", "High"}
CONFIDENCE_THRESHOLD == 70

\* inputs enumerated by the main specification
MachineIds == 1..(NumMachines + 1)
WoIds == 1..MaxWorkOrders
DecisionIds == 1..MaxDecisions
Dates == 0..MaxDay
Approvers == {"alice"}
MailerOutcomes == {"unconfigured", "transport_error", "accepted"}
\* What the language model answers is a JSON object: its confidence, when it
\* has one, is in thousandths here and its explanation is a text of some
\* length.
OracleConfidences == {650, 696}
OraclePriorities == {"High"}
OracleExplanations == {[text |-> "PM is overdue", len |-> 13]}
OracleResponses ==
  [decision : ValidDecisions, priority : OraclePriorities,
   confidence_present : {TRUE}, confidence : OracleConfidences,
   explanation : OracleExplanations]
\* answers the schema refuses: an unknown decision, an unknown priority, no
\* confidence, a confidence below 0 or above 1, an explanation that is too short
MalformedResponses ==
  LET ok == [decision |-> "WAIT", priority |-> "High", confidence_present |-> TRUE,
             confidence |-> 900, explanation |-> [text |-> "PM is overdue", len |-> 13]]
  IN {[ok EXCEPT !.decision = "SHUTDOWN"], [ok EXCEPT !.priority = "Urgent"],
      [ok EXCEPT !.confidence_present = FALSE, !.confidence = 0],
      [ok EXCEPT !.confidence = -1], [ok EXCEPT !.confidence = 1001],
      [ok EXCEPT !.explanation = [text |-> "n/a", len |-> 3]]}
\* around every hundredth the confidences that round to it from below, from
\* above and not at all (ties between two hundredths are left out: how round()
\* settles them depends on the binary representation of the float)
GovernanceConfidences == {t \in 0..1000 : t % 10 \in {0, 4, 6}}
GovernanceResponses ==
  [decision : ValidDecisions, priority : OraclePriorities,
   confidence_present : {TRUE}, confidence : GovernanceConfidences,
   explanation : OracleExplanations]
  \cup MalformedResponses
CreateInputs ==
  [machine_id : MachineIds, status : {"Draft"}, priority : {NoStr},
   scheduled_date : {NoDate}, creation_source : {"Manual"},
   ai_decision_id : {NoId}]
StatusPatches == {[status |-> s] : s \in Statuses}
DatePatches == {[scheduled_date |-> d] : d \in Dates}

\* assigned is a history variable, not program state: the wo_numbers given to
\* work orders so far, in the order they were given
\* requests in flight: a handler that other requests can overlap is a call
\* with a position (pc) and the values it has read so far
CallIds == 1..MaxCalls
IdleCall ==
  [op |-> "none", pc |-> "idle", d |-> NoId, force |-> FALSE,
   wo_data |-> [machine_id |-> NoId, status |-> "Draft", priority |-> NoStr,
                scheduled_date |-> NoDate, creation_source |-> "Manual",
                ai_decision_id |-> NoId],
   wo_number |-> [year |-> 0, digits |-> <<>>],
   w |-> NoId, result |-> NoStr, sent |-> FALSE, mail |-> "none",
   subject |-> [year |-> 0, digits |-> <<>>]]

VARIABLES today, machines, workOrders, woNextId, decisions, history, response,
          assigned, workflowLogs, calls

vars == <<today, machines, workOrders, woNextId, decisions, history, response,
          assigned, workflowLogs, calls>>
db == <<machines, workOrders, woNextId, decisions, history>>

(* ------------------------------ helpers ------------------------------- *)
\* datetime.now().year
YearOf(d) == IF d >= NewYearDay THEN EpochYear + 1 ELSE EpochYear

RECURSIVE DigitsOf(_)
\* decimal digits of a natural number, most significant first
DigitsOf(n) == IF n < 10 THEN <<n>> ELSE Append(DigitsOf(n \div 10), n % 10)

RECURSIVE PadLeft(_, _)
PadLeft(ds, width) == IF Len(ds) >= width THEN ds ELSE PadLeft(<<0>> \o ds, width)

\* f"{seq_num:04d}"
FormatSeq(n) == PadLeft(DigitsOf(n), 4)

RECURSIVE ParseInt(_)
\* int("0012")
ParseInt(ds) == IF ds = <<>> THEN 0 ELSE 10 * ParseInt(SubSeq(ds, 1, Len(ds) - 1)) + ds[Len(ds)]

RECURSIVE LexLess(_, _)
\* string order of two digit strings (ORDER BY wo_number)
LexLess(a, b) ==
  IF a = <<>> THEN b # <<>>
  ELSE IF b = <<>> THEN FALSE
  ELSE IF a[1] # b[1] THEN a[1] < b[1]
  ELSE LexLess(Tail(a), Tail(b))

\* A wo_number is the pair (year, digits), standing for the string
\* "WO-{year}-{digits}"; digits is the text after the last hyphen, a sequence
\* of characters: 0..9 are the decimal digits and Letter is a character that
\* is none (it sorts after the digits).
Letter == 10

\* int(text) raises ValueError unless the text is a non-empty digit string
IsNumeral(ds) == ds # <<>> /\ \A i \in 1..Len(ds) : ds[i] \in 0..9

\* the rows WHERE wo_number LIKE 'WO-{year}-%'
SameYear(year) == {w \in DOMAIN workOrders : workOrders[w].wo_number.year = year}

\* ORDER BY wo_number DESC ... first()
latest_wo(year) ==
  CHOOSE w \in SameYear(year) : \A v \in SameYear(year) \ {w} :
    LexLess(workOrders[v].wo_number.digits, workOrders[w].wo_number.digits)

\* WorkOrderService._generate_wo_number
generate_wo_number ==
  LET year == YearOf(today)
      seq_num == IF SameYear(year) = {} THEN 1
                 ELSE LET text == workOrders[latest_wo(year)].wo_number.digits
                      IN IF IsNumeral(text) THEN ParseInt(text) + 1 ELSE 1
  IN [year |-> year, digits |-> FormatSeq(seq_num)]

\* the rows a query with the "active" status filter returns for one machine
ActiveWorkOrders(m) ==
  {w \in DOMAIN workOrders :
     workOrders[w].machine_id = m /\ workOrders[w].status \in ActiveStatuses}

\* the WorkOrder row built by WorkOrderService.create_work_order
NewWorkOrder(wo_data) ==
  [wo_number |-> generate_wo_number,
   machine_id |-> wo_data.machine_id,
   status |-> wo_data.status,
   priority |-> wo_data.priority,
   creation_source |-> wo_data.creation_source,
   ai_decision_id |-> wo_data.ai_decision_id,
   scheduled_date |-> wo_data.scheduled_date,
   completed_date |-> NoDate,
   notification_sent |-> FALSE,
   notification_sent_at |-> NoDate,
   approved_at |-> NoDate,
   approved_by |-> NoStr]

\* the table after WorkOrderService.create_work_order inserted the row
Inserted(wos, id, row) ==
  [w \in DOMAIN wos \cup {id} |-> IF w = id THEN row ELSE wos[w]]

\* the unique index on wo_number refuses a second row with the same number
WoNumberTaken(num) == \E w \in DOMAIN workOrders : workOrders[w].wo_number = num

\* what the last request returned: the handler, the id of the row it was
\* about, its outcome, the template the dispatcher was invoked with ("none":
\* not invoked) and what the dispatcher returned; for the email pipeline also
\* the response's message, confidence and extracted_date, how often the
\* request called the date-extraction oracle, and the request itself (the
\* subject, what the oracle did with the body, whether the commit went
\* through); for a machine query the pm_status and days_until_pm it returns
Resp(op, target, result, mail, sent) ==
  [op |-> op, target |-> target, result |-> result, mail |-> mail, sent |-> sent,
   can_auto_execute |-> FALSE, message |-> NoStr, oracle_calls |-> 0,
   confidence |-> 0, extracted_date |-> NoDate, request |-> <<>>,
   pm_status |-> NoStr, days_until_pm |-> 0, work_order_id |-> NoId]

(* ------------------------------- Init --------------------------------- *)
Init ==
  /\ today = StartDay
  /\ workflowLogs = <<>>
  /\ calls = [c \in CallIds |-> IdleCall]
  /\ machines = [m \in 1..NumMachines |->
                   [pm_frequency |-> IF m = 1 THEN "Monthly" ELSE "Yearly",
                    last_pm_date |-> NoDate,
                    next_pm_date |-> 0,
                    supplier_email |-> (m = 1)]]
  /\ workOrders = <<>>
  /\ woNextId = 1
  /\ decisions = <<>>
  /\ history = <<>>
  /\ response = Resp("none", NoId, "none", "none", FALSE)
  /\ assigned = <<>>

(* --------------------- POST /work-orders (manual) --------------------- *)
create_work_order(wo_data) ==
  IF wo_data.machine_id \notin DOMAIN machines
  THEN /\ response' = [Resp("create_work_order", NoId, "NotFound", "none", FALSE)
                         EXCEPT !.request = <<wo_data>>]
       /\ UNCHANGED <<today, workflowLogs, calls, assigned, db>>
  ELSE IF ActiveWorkOrders(wo_data.machine_id) # {}
  THEN /\ response' = [Resp("create_work_order", NoId, "ConflictActiveOrder", "none", FALSE)
                         EXCEPT !.request = <<wo_data>>]
       /\ UNCHANGED <<today, workflowLogs, calls, assigned, db>>
  ELSE IF WoNumberTaken(generate_wo_number)
  THEN /\ response' = [Resp("create_work_order", NoId, "IntegrityError", "none", FALSE)
                         EXCEPT !.request = <<wo_data>>]
       /\ UNCHANGED <<today, workflowLogs, calls, assigned, db>>
  ELSE /\ woNextId <= MaxWorkOrders
       /\ workOrders' = Inserted(workOrders, woNextId, NewWorkOrder(wo_data))
       /\ woNextId' = woNextId + 1
       /\ response' = [Resp("create_work_order", woNextId, "created", "none", FALSE)
                         EXCEPT !.request = <<wo_data>>]
       /\ assigned' = Append(assigned, generate_wo_number)
       /\ UNCHANGED <<today, workflowLogs, calls, machines, decisions, history>>

(* ------------------------ PUT /work-orders/{id} ----------------------- *)
\* WorkOrderService.update_work_order: setattr for every field the caller set
Patched(wo, patch) ==
  [f \in DOMAIN wo |-> IF f \in DOMAIN patch THEN patch[f] ELSE wo[f]]

update_work_order(w, patch) ==
  IF w \notin DOMAIN workOrders
  THEN /\ response' = Resp("update_work_order", w, "NotFound", "none", FALSE)
       /\ UNCHANGED <<today, workflowLogs, calls, assigned, db>>
  ELSE /\ workOrders' = [workOrders EXCEPT ![w] = Patched(@, patch)]
       /\ response' = Resp("update_work_order", w, "updated", "none", FALSE)
       /\ UNCHANGED <<today, workflowLogs, calls, assigned, machines, woNextId, decisions, history>>

(* ------------------------- GET /machines/{id} ------------------------- *)
\* the literal 30 of calculate_pm_status
DUE_SOON_DAYS == 30

\* MachineService.calculate_days_until_pm
calculate_days_until_pm(next_pm_date) == next_pm_date - today

calculate_pm_status_Before30(next_pm_date) ==
  LET days_until == next_pm_date - today
  IN IF days_until < 0 THEN "overdue"
     ELSE IF days_until < DUE_SOON_DAYS THEN "due_soon"
     ELSE "ok"

\* MachineService.calculate_pm_status
calculate_pm_status(next_pm_date) ==
  LET days_until == next_pm_date - today
  IN IF days_until < 0 THEN "overdue"
     ELSE IF days_until <= DUE_SOON_DAYS THEN "due_soon"
     ELSE "ok"

\* the handler with MachineService.enrich_machine_data
get_machine(m) ==
  IF m \notin DOMAIN machines
  THEN /\ response' = Resp("get_machine", m, "NotFound", "none", FALSE)
       /\ UNCHANGED <<today, workflowLogs, calls, assigned, db>>
  ELSE /\ response' = [Resp("get_machine", m, "found", "none", FALSE) EXCEPT
                         !.pm_status = calculate_pm_status(machines[m].next_pm_date),
                         !.days_until_pm =
                            calculate_days_until_pm(machines[m].next_pm_date)]
       /\ UNCHANGED <<today, workflowLogs, calls, assigned, db>>

(* ---------------------- DELETE /work-orders/{id} ---------------------- *)
delete_work_order(w) ==
  IF w \notin DOMAIN workOrders
  THEN /\ response' = Resp("delete_work_order", w, "NotFound", "none", FALSE)
       /\ UNCHANGED <<today, workflowLogs, calls, assigned, db>>
  ELSE /\ workOrders' = [v \in DOMAIN workOrders \ {w} |-> workOrders[v]]
       /\ response' = Resp("delete_work_order", w, "deleted", "none", FALSE)
       /\ UNCHANGED <<today, workflowLogs, calls, assigned, machines, woNextId, decisions, history>>

(* ---------------------- notification dispatcher ----------------------- *)
\* NotificationService._send_email: TRUE only when the SMTP server took the
\* message; an unconfigured mailer and a transport error both give FALSE
send_email(mailer) == mailer = "accepted"

send_notification_AnyAddress(m, mailer) == send_email(mailer)

\* NotificationService.send_*_notification: no supplier email -> FALSE
\* before the mailer is tried
send_notification(m, mailer) ==
  IF ~machines[m].supplier_email THEN FALSE ELSE send_email(mailer)

\* one call of a dispatcher operation for a stored work order and its
\* machine: what it returned, and the mailer's behaviour as the request
DispatcherCall(op, template, w, mailer) ==
  /\ w \in DOMAIN workOrders
  /\ LET sent == send_notification(workOrders[w].machine_id, mailer)
     IN response' = [Resp(op, w, IF sent THEN "sent" ELSE "not_sent", template, sent)
                       EXCEPT !.request = <<mailer>>]
  /\ UNCHANGED <<today, workflowLogs, calls, assigned, db>>

send_work_order_notification(w, mailer) ==
  DispatcherCall("send_work_order_notification", "work_order", w, mailer)

send_approval_notification(w, mailer) ==
  DispatcherCall("send_approval_notification", "approval", w, mailer)

send_completion_notification(w, mailer) ==
  DispatcherCall("send_completion_notification", "completion", w, mailer)

\* WorkOrderService.mark_notification_sent
NotificationMarked_Never(wo) == wo

NotificationMarked(wo) ==
  [wo EXCEPT !.notification_sent = TRUE, !.notification_sent_at = today]

(* -------------------- POST /work-orders/{id}/approve ------------------ *)
\* WorkOrderService.approve_work_order
Approved(wo, approved_by) ==
  [wo EXCEPT !.status = "Approved", !.approved_at = today,
             !.approved_by = approved_by]

ApprovableStatuses_Reapprove == {"Draft", "Pending_Approval", "Approved"}

ApprovableStatuses_Reopen == {"Draft", "Pending_Approval", "Cancelled"}

\* the statuses the approve handler lets through
ApprovableStatuses == {"Draft", "Pending_Approval"}

approve_work_order(w, approved_by, mailer) ==
  IF w \notin DOMAIN workOrders
  THEN /\ response' = [Resp("approve_work_order", w, "NotFound", "none", FALSE)
                         EXCEPT !.request = <<w, approved_by>>]
       /\ UNCHANGED <<today, workflowLogs, calls, assigned, db>>
  ELSE IF workOrders[w].status \notin ApprovableStatuses
  THEN /\ response' = [Resp("approve_work_order", w, "InvalidState", "none", FALSE)
                         EXCEPT !.request = <<w, approved_by>>]
       /\ UNCHANGED <<today, workflowLogs, calls, assigned, db>>
  ELSE LET wo == Approved(workOrders[w], approved_by)
           email_sent == send_notification(wo.machine_id, mailer)
       IN /\ workOrders' = [workOrders EXCEPT ![w] =
                               IF email_sent THEN NotificationMarked(wo) ELSE wo]
          /\ response' = [Resp("approve_work_order", w, "approved", "approval", email_sent)
                         EXCEPT !.request = <<w, approved_by>>]
          /\ UNCHANGED <<today, workflowLogs, calls, assigned, machines, woNextId, decisions, history>>

(* -------------------- POST /work-orders/{id}/cancel ------------------- *)
UncancellableStatuses_None == {}

\* the statuses the cancel handler refuses
UncancellableStatuses == {"Completed"}

cancel_work_order(w) ==
  IF w \notin DOMAIN workOrders
  THEN /\ response' = Resp("cancel_work_order", w, "NotFound", "none", FALSE)
       /\ UNCHANGED <<today, workflowLogs, calls, assigned, db>>
  ELSE IF workOrders[w].status \in UncancellableStatuses
  THEN /\ response' = Resp("cancel_work_order", w, "InvalidState", "none", FALSE)
       /\ UNCHANGED <<today, workflowLogs, calls, assigned, db>>
  ELSE /\ workOrders' = [workOrders EXCEPT ![w].status = "Cancelled"]
       /\ response' = Resp("cancel_work_order", w, "cancelled", "none", FALSE)
       /\ UNCHANGED <<today, workflowLogs, calls, assigned, machines, woNextId, decisions, history>>

(* ------------------- POST /work-orders/{id}/complete ------------------ *)
\* positional parameters of WorkOrderService.complete_work_order besides self
complete_work_order_params == 1
\* positional arguments the handler passes: wo_id and completed_date
complete_work_order_args == 2

frequency_days_Unmapped(pm_frequency) ==
  CASE pm_frequency = "Monthly" -> 30
    [] pm_frequency = "Bimonthly" -> 60
    [] pm_frequency = "Yearly" -> 365
    [] OTHER -> 30

\* WorkOrderService._calculate_next_pm_date
frequency_days(pm_frequency) ==
  CASE pm_frequency = "Monthly" -> 30
    [] pm_frequency = "Bimonthly" -> 60
    [] pm_frequency = "Quarterly" -> 90
    [] pm_frequency = "Yearly" -> 365
    [] OTHER -> 30

calculate_next_pm_date(from_date, pm_frequency) ==
  from_date + frequency_days(pm_frequency)

\* WorkOrderService.complete_work_order(wo_id): the rows it writes
svc_completed_order(wo) ==
  [wo EXCEPT !.status = "Completed", !.completed_date = today]

svc_completed_machine_FromToday(mach, wo) ==
  [mach EXCEPT
     !.last_pm_date = today,
     !.next_pm_date = calculate_next_pm_date(today, mach.pm_frequency)]

svc_completed_machine(mach, wo) ==
  [mach EXCEPT
     !.last_pm_date = today,
     !.next_pm_date = calculate_next_pm_date(
        IF wo.scheduled_date # NoDate THEN wo.scheduled_date ELSE today,
        mach.pm_frequency)]

svc_history_row_Unlinked(w, wo) ==
  [machine_id |-> wo.machine_id, maintenance_date |-> today,
   maintenance_type |-> "Preventive", work_order_id |-> NoId]

svc_history_row(w, wo) ==
  [machine_id |-> wo.machine_id, maintenance_date |-> today,
   maintenance_type |-> "Preventive", work_order_id |-> w]

\* WorkOrderService.complete_work_order(wo_id), called with the one argument
\* it takes
WorkOrderService_complete_work_order(w) ==
  IF w \notin DOMAIN workOrders
  THEN /\ response' = [Resp("WorkOrderService.complete_work_order", w, "None",
                            "none", FALSE) EXCEPT !.request = <<w>>]
       /\ UNCHANGED <<today, workflowLogs, calls, assigned, db>>
  ELSE LET wo == svc_completed_order(workOrders[w])
           m == wo.machine_id
       IN /\ Len(history) < MaxHistory
          /\ workOrders' = [workOrders EXCEPT ![w] = wo]
          /\ machines' = [machines EXCEPT ![m] = svc_completed_machine(@, wo)]
          /\ history' = Append(history, svc_history_row(w, wo))
          /\ response' = [Resp("WorkOrderService.complete_work_order", w,
                               "completed", "none", FALSE) EXCEPT !.request = <<w>>]
          /\ UNCHANGED <<today, workflowLogs, calls, assigned, woNextId, decisions>>

CompletableStatuses_Draft == {"Approved", "Draft"}

\* the statuses the complete handler lets through
CompletableStatuses == {"Approved"}

CompletionDateRefused_FutureOnly(wo, completed_date) == completed_date > today

\* the two date guards of the complete handler
CompletionDateRefused(wo, completed_date) ==
  \/ completed_date > today
  \/ /\ wo.scheduled_date # NoDate
     /\ completed_date < wo.scheduled_date

\* the answer of the complete handler, with the call it answers
CompleteResp(w, completed_date, result, mail, sent) ==
  [Resp("complete_work_order", w, result, mail, sent)
     EXCEPT !.request = <<w, completed_date>>]

complete_work_order(w, completed_date, mailer) ==
  IF w \notin DOMAIN workOrders
  THEN /\ response' = CompleteResp(w, completed_date, "NotFound", "none", FALSE)
       /\ UNCHANGED <<today, workflowLogs, calls, assigned, db>>
  ELSE IF workOrders[w].status \notin CompletableStatuses
  THEN /\ response' = CompleteResp(w, completed_date, "InvalidState", "none", FALSE)
       /\ UNCHANGED <<today, workflowLogs, calls, assigned, db>>
  ELSE IF CompletionDateRefused(workOrders[w], completed_date)
  THEN /\ response' = CompleteResp(w, completed_date, "InvalidCompletionDate",
                                   "none", FALSE)
       /\ UNCHANGED <<today, workflowLogs, calls, assigned, db>>
  ELSE IF complete_work_order_args # complete_work_order_params
  THEN \* the call service.complete_work_order(wo_id, completed_date) raises
       \* TypeError before the method body runs
       /\ response' = CompleteResp(w, completed_date, "TypeError", "none", FALSE)
       /\ UNCHANGED <<today, workflowLogs, calls, assigned, db>>
  ELSE LET wo == svc_completed_order(workOrders[w])
           m == wo.machine_id
           email_sent == send_notification(m, mailer)
       IN /\ workOrders' = [workOrders EXCEPT ![w] =
                               IF email_sent THEN NotificationMarked(wo) ELSE wo]
          /\ machines' = [machines EXCEPT ![m] = svc_completed_machine(@, wo)]
          /\ history' = Append(history, svc_history_row(w, wo))
          /\ response' = CompleteResp(w, completed_date, "completed", "completion",
                                      email_sent)
          /\ UNCHANGED <<today, workflowLogs, calls, assigned, woNextId, decisions>>

(* ----------------------- POST /ai/decision/{id} ----------------------- *)
\* AIService.make_decision: the governance flags
requires_review_AtThreshold(confidence) == confidence <= CONFIDENCE_THRESHOLD

requires_review(confidence) == confidence < CONFIDENCE_THRESHOLD

can_auto_execute(confidence) ==
  ~requires_review(confidence) /\ confidence >= CONFIDENCE_THRESHOLD

\* round(v, 2) of the confidence validator: thousandths to hundredths
Round2(t) == (t + 5) \div 10

AIDecisionResponseValid_AnyConfidence(raw) ==
  /\ raw.decision \in ValidDecisions
  /\ raw.priority \in ValidPriorities
  /\ raw.explanation.len >= 10

\* AIDecisionResponse(**decision_data): whether the schema takes the answer
AIDecisionResponseValid(raw) ==
  /\ raw.decision \in ValidDecisions
  /\ raw.priority \in ValidPriorities
  /\ raw.confidence_present
  /\ 0 <= raw.confidence /\ raw.confidence <= 1000
  /\ raw.explanation.len >= 10

\* llm_provider.get_decision for an answer the schema takes: the validated
\* response, its confidence rounded to hundredths
get_decision(raw) ==
  [decision |-> raw.decision, priority |-> raw.priority,
   confidence |-> Round2(raw.confidence), explanation |-> raw.explanation]

DecisionRow_Floored(m, ai_response) ==
  [machine_id |-> m,
   decision |-> ai_response.decision,
   priority |-> ai_response.priority,
   confidence |-> 0,
   explanation |-> ai_response.explanation,
   auto_executed |-> FALSE,
   requires_review |-> requires_review(ai_response.confidence)]

\* the AIDecision row make_decision stores
DecisionRow(m, ai_response) ==
  [machine_id |-> m,
   decision |-> ai_response.decision,
   priority |-> ai_response.priority,
   confidence |-> ai_response.confidence,
   explanation |-> ai_response.explanation,
   auto_executed |-> FALSE,
   requires_review |-> requires_review(ai_response.confidence)]

\* the handler get_ai_decision with AIService.make_decision; raw is what the
\* language model answers when it is asked
make_decision(m, raw) ==
  IF m \notin DOMAIN machines
  THEN /\ response' = [Resp("make_decision", NoId, "NotFound", "none", FALSE)
                         EXCEPT !.request = <<m>>]
       /\ UNCHANGED <<today, workflowLogs, calls, assigned, db>>
  ELSE IF ~AIDecisionResponseValid(raw)
  THEN \* the provider raises pydantic's ValidationError, nothing is stored
       /\ response' = [Resp("make_decision", NoId, "OracleError", "none", FALSE)
                         EXCEPT !.request = <<m, raw>>, !.oracle_calls = 1]
       /\ UNCHANGED <<today, workflowLogs, calls, assigned, db>>
  ELSE LET ai_response == get_decision(raw)
       IN /\ Len(decisions) < MaxDecisions
          /\ decisions' = Append(decisions, DecisionRow(m, ai_response))
          /\ response' = [Resp("make_decision", Len(decisions) + 1, "decided",
                                "none", FALSE)
                            EXCEPT !.can_auto_execute =
                                     can_auto_execute(ai_response.confidence),
                                   !.request = <<m, raw>>, !.oracle_calls = 1]
          /\ UNCHANGED <<today, workflowLogs, calls, assigned, machines, workOrders, woNextId, history>>

(* ------------------- POST /ai/decision/{id}/execute ------------------- *)
DecisionWorkOrder_Draft(d) ==
  [machine_id |-> decisions[d].machine_id,
   creation_source |-> "AI",
   ai_decision_id |-> d,
   priority |-> decisions[d].priority,
   status |-> "Draft",
   scheduled_date |-> NoDate]

NotifyCandidates_AnyActive(m) ==
  {w \in DOMAIN workOrders :
     /\ workOrders[w].machine_id = m
     /\ workOrders[w].status \in {"Approved", "Pending_Approval", "Draft"}}

\* AIService._create_work_order_from_decision: the WorkOrderCreate it builds
DecisionWorkOrder(d) ==
  [machine_id |-> decisions[d].machine_id,
   creation_source |-> "AI",
   ai_decision_id |-> d,
   priority |-> decisions[d].priority,
   status |-> "Pending_Approval",
   scheduled_date |-> NoDate]

\* AIService._send_notification_from_decision: the rows the two queries can
\* return as .first() (no ORDER BY: any matching row)
NotifyCandidates(m) ==
  LET approved == {w \in DOMAIN workOrders :
                     workOrders[w].machine_id = m /\ workOrders[w].status = "Approved"}
      fallback == {w \in DOMAIN workOrders :
                     /\ workOrders[w].machine_id = m
                     /\ workOrders[w].status \in {"Pending_Approval", "Draft"}}
  IN IF approved # {} THEN approved ELSE fallback

ReviewBlocks_Never(dec, force) == FALSE

\* the confidence guard of execute_decision
ReviewBlocks(dec, force) == ~force /\ dec.requires_review

MarkExecuted_Forgotten(decs, d) == decs

MarkExecuted_Reviewed(decs, d) ==
  [decs EXCEPT ![d].auto_executed = TRUE, ![d].requires_review = FALSE]

\* ai_decision.auto_executed = True
MarkExecuted(decs, d) == [decs EXCEPT ![d].auto_executed = TRUE]

\* the result dictionary of execute_decision, with the call it answers
ExecResp(d, force, result, mail, sent, w) ==
  [Resp("execute_decision", d, result, mail, sent)
     EXCEPT !.request = <<d, force>>, !.work_order_id = w]

execute_decision(d, force, mailer) ==
  IF d \notin DOMAIN decisions
  THEN /\ response' = ExecResp(d, force, "NotFound", "none", FALSE, NoId)
       /\ UNCHANGED <<today, workflowLogs, calls, assigned, db>>
  ELSE IF decisions[d].auto_executed
  THEN /\ response' = ExecResp(d, force, "already_executed", "none", FALSE, NoId)
       /\ UNCHANGED <<today, workflowLogs, calls, assigned, db>>
  ELSE IF ReviewBlocks(decisions[d], force)
  THEN /\ response' = ExecResp(d, force, "ReviewRequired", "none", FALSE, NoId)
       /\ UNCHANGED <<today, workflowLogs, calls, assigned, db>>
  ELSE IF decisions[d].decision = "CREATE_WORK_ORDER"
  THEN IF WoNumberTaken(generate_wo_number)
       THEN /\ response' = ExecResp(d, force, "IntegrityError", "none", FALSE, NoId)
            /\ UNCHANGED <<today, workflowLogs, calls, assigned, db>>
       ELSE /\ woNextId <= MaxWorkOrders
            /\ workOrders' = Inserted(workOrders, woNextId,
                                      NewWorkOrder(DecisionWorkOrder(d)))
            /\ woNextId' = woNextId + 1
            /\ decisions' = MarkExecuted(decisions, d)
            /\ response' = ExecResp(d, force, "work_order_created", "none", FALSE,
                                    woNextId)
            /\ assigned' = Append(assigned, generate_wo_number)
            /\ UNCHANGED <<today, workflowLogs, calls, machines, history>>
  ELSE IF decisions[d].decision = "SEND_NOTIFICATION"
  THEN LET m == decisions[d].machine_id IN
       IF NotifyCandidates(m) = {}
       THEN /\ decisions' = MarkExecuted(decisions, d)
            /\ response' = ExecResp(d, force, "error_no_work_order", "none", FALSE,
                                    NoId)
            /\ UNCHANGED <<today, workflowLogs, calls, assigned, machines, workOrders, woNextId, history>>
       ELSE \E w \in NotifyCandidates(m) :
              LET template == IF workOrders[w].status = "Approved"
                              THEN "approval" ELSE "work_order"
                  success == send_notification(m, mailer)
              IN /\ workOrders' = IF success
                                  THEN [workOrders EXCEPT ![w] = NotificationMarked(@)]
                                  ELSE workOrders
                 /\ decisions' = MarkExecuted(decisions, d)
                 /\ response' = ExecResp(d, force,
                                         IF success THEN "notification_sent"
                                         ELSE "notification_failed",
                                         template, success, w)
                 /\ UNCHANGED <<today, workflowLogs, calls, assigned, machines, woNextId, history>>
  ELSE /\ decisions' = MarkExecuted(decisions, d)
       /\ response' = ExecResp(d, force, "wait", "none", FALSE, NoId)
       /\ UNCHANGED <<today, workflowLogs, calls, assigned, machines, workOrders, woNextId, history>>

(* --------------- POST /workflows/email-date-extraction ---------------- *)
\* An email subject is modelled by the first text in it that starts like a
\* work-order number: "WO-{year}-{digits}" with any number of digits; a
\* subject without such a text has year 0 and no digits.
NoSubjectNumber == [year |-> 0, digits |-> <<>>]
Subjects ==
  {NoSubjectNumber} \cup
  [year : {EpochYear + 1},
   digits : {<<0, 1>>, <<0, 0, 0, 1>>, <<0, 0, 0, 2>>, <<0, 0, 0, 1, 5>>}]

\* re.search(r'WO-\d{4}-\d{3,4}', subject): at least three digits are needed
\* and at most four are taken
extract_wo_number_from_subject(subject) ==
  IF Len(subject.digits) < 3
  THEN NoSubjectNumber
  ELSE [year |-> subject.year,
        digits |-> SubSeq(subject.digits, 1,
                          IF Len(subject.digits) < 4 THEN Len(subject.digits) ELSE 4)]

\* WorkOrderService.get_work_order_by_wo_number: the ids of the matching rows
get_work_order_by_wo_number(wo_number) ==
  {w \in DOMAIN workOrders : workOrders[w].wo_number = wo_number}

\* What the date-extraction oracle does with one body: it answers with a
\* selected_date (JSON null, a text that is no ISO date, or an ISO date) and a
\* confidence, it fails (provider error, unparsable answer), or it answers with
\* a confidence that is not a number.
SelectedDates ==
  {[text |-> "null", day |-> NoDate], [text |-> "garbage", day |-> NoDate]}
  \cup {[text |-> "iso", day |-> d] : d \in Dates}
ExtractionConfidences == {69, 70}
OracleOutcomes ==
  {[kind |-> "failure", selected_date |-> [text |-> "null", day |-> NoDate],
    confidence |-> 0],
   [kind |-> "malformed", selected_date |-> [text |-> "null", day |-> NoDate],
    confidence |-> 0]}
  \cup [kind : {"answer"}, selected_date : SelectedDates,
        confidence : ExtractionConfidences]

\* DateExtractionService.extract_date_from_email: a failure is caught and
\* reported as no date with confidence 0.0
extraction_result(oracle) ==
  IF oracle.kind = "failure"
  THEN [selected_date |-> [text |-> "null", day |-> NoDate], confidence |-> 0]
  ELSE [selected_date |-> oracle.selected_date, confidence |-> oracle.confidence]

\* the literal 0.7 of stage 5, in hundredths
EMAIL_CONFIDENCE_MIN == 70

ConfidenceTooLow_AtThreshold(confidence) == confidence <= EMAIL_CONFIDENCE_MIN

\* stage 5: if confidence < 0.7
ConfidenceTooLow(confidence) == confidence < EMAIL_CONFIDENCE_MIN

\* validate_scheduled_date: the error it reports, NoStr when it reports none
validate_scheduled_date(date_str) ==
  IF date_str.text # "iso" THEN "Invalid date format"
  ELSE IF date_str.day < today THEN "Date is in the past"
  ELSE NoStr

ExtractionError_DateFirst(result) ==
  IF result.selected_date.text = "null" THEN "no_date"
  ELSE IF ConfidenceTooLow(result.confidence) THEN "low_confidence"
  ELSE IF validate_scheduled_date(result.selected_date) # NoStr THEN "invalid_date"
  ELSE NoStr

\* stages 5 and 6: the error the extraction result is refused with, NoStr
\* when it passes
ExtractionError(result) ==
  IF ConfidenceTooLow(result.confidence) THEN "low_confidence"
  ELSE IF result.selected_date.text = "null" THEN "no_date"
  ELSE IF validate_scheduled_date(result.selected_date) # NoStr THEN "invalid_date"
  ELSE NoStr

PipelineStatusOk_Any(wo) == TRUE

\* stage 3: the status the pipeline asks for
PipelineStatusOk(wo) == wo.status = "Approved"

EmailPatch_Reopen(parsed_date) ==
  [scheduled_date |-> parsed_date, status |-> "Draft"]

\* stage 7: WorkOrderUpdate(scheduled_date=parsed_date)
EmailPatch(parsed_date) == [scheduled_date |-> parsed_date]

\* EmailDateExtractionResponse(status=..., message=...)
EmailResp(request, target, status, message, oracle_calls, confidence, extracted_date) ==
  [Resp("extract_date_from_email", target, status, "none", FALSE)
     EXCEPT !.message = message, !.oracle_calls = oracle_calls,
            !.confidence = confidence, !.extracted_date = extracted_date,
            !.request = request]

\* commit_ok: whether the database took the commit of stage 7
extract_date_from_email(subject, oracle, commit_ok) ==
  LET wo_number == extract_wo_number_from_subject(subject)
      found == get_work_order_by_wo_number(wo_number)
      request == <<subject, oracle, commit_ok>>
  IN
  IF wo_number = NoSubjectNumber
  THEN /\ response' = EmailResp(request, NoId, "Error", "no_wo_number", 0, 0, NoDate)
       /\ UNCHANGED <<today, workflowLogs, calls, assigned, db>>
  ELSE IF found = {}
  THEN /\ response' = EmailResp(request, NoId, "Error", "not_found", 0, 0, NoDate)
       /\ UNCHANGED <<today, workflowLogs, calls, assigned, db>>
  ELSE LET w == CHOOSE x \in found : TRUE
           result == extraction_result(oracle)
       IN
       IF ~PipelineStatusOk(workOrders[w])
       THEN /\ response' = EmailResp(request, w, "Error", "status_mismatch", 0, 0, NoDate)
            /\ UNCHANGED <<today, workflowLogs, calls, assigned, db>>
       ELSE IF oracle.kind = "malformed"
       THEN \* comparing the confidence raises TypeError: the outer except
            /\ response' = EmailResp(request, NoId, "Error", "internal_error", 1, 0, NoDate)
            /\ UNCHANGED <<today, workflowLogs, calls, assigned, db>>
       ELSE IF ExtractionError(result) # NoStr
       THEN /\ response' = EmailResp(request, w, "Error", ExtractionError(result), 1,
                                     result.confidence, NoDate)
            /\ UNCHANGED <<today, workflowLogs, calls, assigned, db>>
       ELSE IF ~commit_ok
       THEN /\ response' = EmailResp(request, NoId, "Error", "internal_error", 1, 0, NoDate)
            /\ UNCHANGED <<today, workflowLogs, calls, assigned, db>>
       ELSE /\ workOrders' = [workOrders EXCEPT ![w] =
                                 Patched(@, EmailPatch(result.selected_date.day))]
            /\ response' = EmailResp(request, w, "Success", "updated", 1, result.confidence,
                                  result.selected_date.day)
            /\ UNCHANGED <<today, workflowLogs, calls, assigned, machines, woNextId, decisions, history>>

(* ------------------------ POST/PUT /workflow-logs --------------------- *)
\* WorkflowLogUpdate: the fields a partial update can carry
UpdateFields ==
  {"status", "machines_processed", "work_orders_created", "notifications_sent",
   "errors", "execution_time_ms", "completed_at"}

\* execution_time_ms = None
NoMs == -1

\* WorkflowLogBase / WorkflowLogCreate: the value of a field the caller omits
FieldDefault ==
  [status |-> NoStr, machines_processed |-> 0, work_orders_created |-> 0,
   notifications_sent |-> 0, errors |-> NoStr, execution_time_ms |-> NoMs,
   started_at |-> NoDate, completed_at |-> NoDate]

\* the value a caller sends for a field it provides
SentValue ==
  [status |-> "Failed", machines_processed |-> 2, work_orders_created |-> 1,
   notifications_sent |-> 1, errors |-> "timeout", execution_time_ms |-> 5,
   started_at |-> 0, completed_at |-> MaxDay]

\* request bodies: the name, the execution id and the set of optional fields
\* present in the JSON
LogFieldSets ==
  {{}, {"status"},
   {"machines_processed", "work_orders_created", "notifications_sent"},
   UpdateFields \cup {"started_at"}}
LogInputs ==
  [workflow_name : {"pm-check", "email-intake"},
   execution_id : {NoStr, "", "exec-1"},
   fields_set : LogFieldSets]

\* WorkflowLogCreate(**body): omitted fields take their defaults
WorkflowLogCreate(input) ==
  LET val(f) == IF f \in input.fields_set THEN SentValue[f] ELSE FieldDefault[f]
  IN [workflow_name |-> input.workflow_name,
      execution_id |-> input.execution_id,
      status |-> val("status"),
      machines_processed |-> val("machines_processed"),
      work_orders_created |-> val("work_orders_created"),
      notifications_sent |-> val("notifications_sent"),
      errors |-> val("errors"),
      execution_time_ms |-> val("execution_time_ms"),
      started_at |-> val("started_at"),
      completed_at |-> val("completed_at")]

\* WorkflowLogUpdate(**body): the fields present and their values
WorkflowLogUpdate(input) ==
  [fields_set |-> input.fields_set \cap UpdateFields,
   values |-> [f \in UpdateFields |->
                 IF f \in input.fields_set THEN SentValue[f] ELSE FieldDefault[f]]]

\* upsert_workflow_log: WorkflowLogUpdate(status=log_data.status, ...), every
\* field passed to the constructor and therefore set
upsert_update_data(input, log_data) ==
  [fields_set |-> UpdateFields,
   values |-> [f \in UpdateFields |-> log_data[f]]]

\* if log_data.execution_id: None and the empty string are both false
Truthy(str) == str \notin {NoStr, ""}

\* get_workflow_log_by_execution_id: the first matching row
get_workflow_log_by_execution_id(execution_id) ==
  LET found == {l \in DOMAIN workflowLogs :
                  workflowLogs[l].execution_id = execution_id}
  IN IF found = {} THEN NoId
     ELSE CHOOSE l \in found : \A k \in found : l <= k

\* update_workflow_log: model_dump(exclude_unset=True) and setattr
WorkflowLogUpdated(log, update_data) ==
  [f \in DOMAIN log |->
     IF f \in update_data.fields_set THEN update_data.values[f] ELSE log[f]]

\* create_workflow_log: started_at defaults to now
WorkflowLogCreated(log_data) ==
  [log_data EXCEPT !.started_at = IF @ = NoDate THEN today ELSE @]

\* POST /workflow-logs
upsert_workflow_log(input) ==
  LET log_data == WorkflowLogCreate(input)
      existing_log == IF Truthy(log_data.execution_id)
                      THEN get_workflow_log_by_execution_id(log_data.execution_id)
                      ELSE NoId
  IN IF existing_log # NoId
     THEN /\ workflowLogs' =
               [workflowLogs EXCEPT ![existing_log] =
                  WorkflowLogUpdated(@, upsert_update_data(input, log_data))]
          /\ response' = [Resp("upsert_workflow_log", existing_log, "updated",
                               "none", FALSE) EXCEPT !.request = <<input>>]
          /\ UNCHANGED <<today, calls, assigned, db>>
     ELSE /\ Len(workflowLogs) < MaxLogs
          /\ workflowLogs' = Append(workflowLogs, WorkflowLogCreated(log_data))
          /\ response' = [Resp("upsert_workflow_log", Len(workflowLogs) + 1,
                               "created", "none", FALSE) EXCEPT !.request = <<input>>]
          /\ UNCHANGED <<today, calls, assigned, db>>

\* PUT /workflow-logs/{log_id}
update_workflow_log(log_id, input) ==
  IF log_id \notin DOMAIN workflowLogs
  THEN /\ response' = [Resp("update_workflow_log", log_id, "NotFound", "none", FALSE)
                         EXCEPT !.request = <<input>>]
       /\ UNCHANGED <<today, calls, assigned, db, workflowLogs>>
  ELSE /\ workflowLogs' =
            [workflowLogs EXCEPT ![log_id] =
               WorkflowLogUpdated(@, WorkflowLogUpdate(input))]
       /\ response' = [Resp("update_workflow_log", log_id, "updated", "none", FALSE)
                         EXCEPT !.request = <<input>>]
       /\ UNCHANGED <<today, calls, assigned, db>>

(* ------------------------ overlapping requests ------------------------ *)
\* Each request has its own database session and the handlers take no lock:
\* between two database statements of one request another request can run.
\* The steps below are the handlers cut at those points.
Ended(c) == [calls EXCEPT ![c] = IdleCall]

\* POST /work-orders, first step: the machine lookup and the active-order
\* query of the handler
create_check(c, wo_data) ==
  /\ calls[c].pc = "idle"
  /\ IF wo_data.machine_id \notin DOMAIN machines
     THEN /\ response' = [Resp("create_work_order", NoId, "NotFound", "none", FALSE)
                            EXCEPT !.request = <<wo_data>>]
          /\ UNCHANGED <<today, workflowLogs, calls, assigned, db>>
     ELSE IF ActiveWorkOrders(wo_data.machine_id) # {}
     THEN /\ response' = [Resp("create_work_order", NoId, "ConflictActiveOrder",
                                "none", FALSE) EXCEPT !.request = <<wo_data>>]
          /\ UNCHANGED <<today, workflowLogs, calls, assigned, db>>
     ELSE /\ calls' = [calls EXCEPT ![c] =
                         [IdleCall EXCEPT !.op = "create_work_order",
                                          !.pc = "generate",
                                          !.wo_data = wo_data]]
          /\ UNCHANGED <<today, workflowLogs, assigned, db, response>>

\* WorkOrderService.create_work_order, first statement: _generate_wo_number
\* reads the latest number of the year
svc_generate(c) ==
  /\ calls[c].pc = "generate"
  /\ calls' = [calls EXCEPT ![c].pc = "insert", ![c].wo_number = generate_wo_number]
  /\ UNCHANGED <<today, workflowLogs, assigned, db, response>>

\* WorkOrderService.create_work_order, add and commit: the unique index on
\* wo_number refuses a number another request has committed meanwhile
svc_insert(c) ==
  /\ calls[c].pc = "insert"
  /\ IF WoNumberTaken(calls[c].wo_number)
     THEN /\ response' =
               [Resp(calls[c].op, calls[c].d, "IntegrityError", "none", FALSE)
                  EXCEPT !.request = IF calls[c].op = "create_work_order"
                                     THEN <<calls[c].wo_data>>
                                     ELSE <<calls[c].d, calls[c].force>>]
          /\ calls' = Ended(c)
          /\ UNCHANGED <<today, workflowLogs, assigned, db>>
     ELSE /\ woNextId <= MaxWorkOrders
          /\ workOrders' =
               Inserted(workOrders, woNextId,
                        [NewWorkOrder(calls[c].wo_data)
                           EXCEPT !.wo_number = calls[c].wo_number])
          /\ woNextId' = woNextId + 1
          /\ assigned' = Append(assigned, calls[c].wo_number)
          /\ IF calls[c].op = "create_work_order"
             THEN /\ response' = [Resp("create_work_order", woNextId, "created",
                                        "none", FALSE)
                                    EXCEPT !.request = <<calls[c].wo_data>>]
                  /\ calls' = Ended(c)
             ELSE /\ calls' = [calls EXCEPT ![c].pc = "mark", ![c].w = woNextId,
                                           ![c].result = "work_order_created"]
                  /\ UNCHANGED response
          /\ UNCHANGED <<today, workflowLogs, machines, decisions, history>>

ExecuteGuard_Unchecked(dec, force) ==
  IF ReviewBlocks(dec, force) THEN "ReviewRequired" ELSE "pass"

\* execute_decision: the two guards on the decision row it has just read
ExecuteGuard(dec, force) ==
  IF dec.auto_executed THEN "already_executed"
  ELSE IF ReviewBlocks(dec, force) THEN "ReviewRequired"
  ELSE "pass"

\* POST /ai/decision/{id}/execute, first step: the decision is read and the
\* guards are evaluated on what was read
exec_check(c, d, force) ==
  /\ calls[c].pc = "idle"
  /\ IF d \notin DOMAIN decisions
     THEN /\ response' = ExecResp(d, force, "NotFound", "none", FALSE, NoId)
          /\ UNCHANGED <<today, workflowLogs, calls, assigned, db>>
     ELSE IF ExecuteGuard(decisions[d], force) # "pass"
     THEN /\ response' = ExecResp(d, force, ExecuteGuard(decisions[d], force),
                                  "none", FALSE, NoId)
          /\ UNCHANGED <<today, workflowLogs, calls, assigned, db>>
     ELSE /\ calls' = [calls EXCEPT ![c] =
                         [IdleCall EXCEPT
                            !.op = "execute_decision",
                            !.d = d,
                            !.force = force,
                            !.wo_data = DecisionWorkOrder(d),
                            !.pc = IF decisions[d].decision = "CREATE_WORK_ORDER"
                                   THEN "generate"
                                   ELSE IF decisions[d].decision = "SEND_NOTIFICATION"
                                   THEN "notify" ELSE "mark",
                            !.result = IF decisions[d].decision = "WAIT"
                                       THEN "wait" ELSE NoStr]]
          /\ UNCHANGED <<today, workflowLogs, assigned, db, response>>

\* _send_notification_from_decision: the work-order queries, the send and
\* mark_notification_sent
exec_notify(c, mailer) ==
  /\ calls[c].pc = "notify"
  /\ LET m == decisions[calls[c].d].machine_id IN
     IF NotifyCandidates(m) = {}
     THEN /\ calls' = [calls EXCEPT ![c].pc = "mark",
                                   ![c].result = "error_no_work_order"]
          /\ UNCHANGED <<today, workflowLogs, assigned, db, response>>
     ELSE \E w \in NotifyCandidates(m) :
            LET template == IF workOrders[w].status = "Approved"
                            THEN "approval" ELSE "work_order"
                success == send_notification(m, mailer)
            IN /\ workOrders' = IF success
                                THEN [workOrders EXCEPT ![w] = NotificationMarked(@)]
                                ELSE workOrders
               /\ calls' = [calls EXCEPT
                              ![c].pc = "mark", ![c].w = w, ![c].sent = success,
                              ![c].mail = template,
                              ![c].result = IF success THEN "notification_sent"
                                            ELSE "notification_failed"]
               /\ UNCHANGED <<today, workflowLogs, assigned, machines, woNextId,
                              decisions, history, response>>

\* execute_decision, last statements: auto_executed = True and commit
exec_mark(c) ==
  /\ calls[c].pc = "mark"
  /\ decisions' = MarkExecuted(decisions, calls[c].d)
  /\ response' = ExecResp(calls[c].d, calls[c].force, calls[c].result,
                          calls[c].mail, calls[c].sent, calls[c].w)
  /\ calls' = Ended(c)
  /\ UNCHANGED <<today, workflowLogs, assigned, machines, workOrders, woNextId,
                 history>>

\* POST /workflows/email-date-extraction, stages 1 to 3: the work order is
\* resolved and its status tested; the handler then awaits the oracle
email_resolve(c, subject) ==
  LET wo_number == extract_wo_number_from_subject(subject)
      found == get_work_order_by_wo_number(wo_number)
      request == <<subject>>
  IN
  /\ calls[c].pc = "idle"
  /\ IF wo_number = NoSubjectNumber
     THEN /\ response' = EmailResp(request, NoId, "Error", "no_wo_number", 0, 0, NoDate)
          /\ UNCHANGED <<today, workflowLogs, calls, assigned, db>>
     ELSE IF found = {}
     THEN /\ response' = EmailResp(request, NoId, "Error", "not_found", 0, 0, NoDate)
          /\ UNCHANGED <<today, workflowLogs, calls, assigned, db>>
     ELSE LET w == CHOOSE x \in found : TRUE IN
          IF ~PipelineStatusOk(workOrders[w])
          THEN /\ response' = EmailResp(request, w, "Error", "status_mismatch", 0, 0,
                                        NoDate)
               /\ UNCHANGED <<today, workflowLogs, calls, assigned, db>>
          ELSE /\ calls' = [calls EXCEPT ![c] =
                              [IdleCall EXCEPT !.op = "extract_date_from_email",
                                               !.pc = "oracle",
                                               !.w = w,
                                               !.subject = subject]]
               /\ UNCHANGED <<today, workflowLogs, assigned, db, response>>

\* stages 4 to 7, when the oracle has answered: the work order read in
\* stage 2 is patched through update_work_order by its id
email_apply(c, oracle, commit_ok) ==
  LET w == calls[c].w
      result == extraction_result(oracle)
      request == <<calls[c].subject, oracle, commit_ok>>
  IN
  /\ calls[c].pc = "oracle"
  /\ calls' = Ended(c)
  /\ IF oracle.kind = "malformed"
     THEN /\ response' = EmailResp(request, NoId, "Error", "internal_error", 1, 0,
                                   NoDate)
          /\ UNCHANGED <<today, workflowLogs, assigned, db>>
     ELSE IF ExtractionError(result) # NoStr
     THEN /\ response' = EmailResp(request, w, "Error", ExtractionError(result), 1,
                                   result.confidence, NoDate)
          /\ UNCHANGED <<today, workflowLogs, assigned, db>>
     ELSE IF w \notin DOMAIN workOrders
     THEN /\ response' = EmailResp(request, w, "Error", "update_failed", 1, 0, NoDate)
          /\ UNCHANGED <<today, workflowLogs, assigned, db>>
     ELSE IF ~commit_ok
     THEN /\ response' = EmailResp(request, NoId, "Error", "internal_error", 1, 0,
                                   NoDate)
          /\ UNCHANGED <<today, workflowLogs, assigned, db>>
     ELSE /\ workOrders' = [workOrders EXCEPT ![w] =
                              Patched(@, EmailPatch(result.selected_date.day))]
          /\ response' = EmailResp(request, w, "Success", "updated", 1,
                                   result.confidence, result.selected_date.day)
          /\ UNCHANGED <<today, workflowLogs, assigned, machines, woNextId,
                         decisions, history>>

(* ------------------------------- Next --------------------------------- *)
\* every handler, with status patches and completion on the current day
Next ==
  \/ \E wo_data \in CreateInputs : create_work_order(wo_data)
  \/ \E w \in WoIds, patch \in StatusPatches : update_work_order(w, patch)
  \/ \E w \in WoIds, by \in Approvers, mailer \in MailerOutcomes :
       approve_work_order(w, by, mailer)
  \/ \E w \in WoIds, mailer \in MailerOutcomes :
       complete_work_order(w, today, mailer)
  \/ \E w \in WoIds : cancel_work_order(w)
  \/ \E m \in MachineIds, r \in OracleResponses : make_decision(m, r)
  \/ \E d \in DecisionIds, force \in BOOLEAN, mailer \in MailerOutcomes :
       execute_decision(d, force, mailer)

Spec == Init /\ [][Next]_vars

\* the work-order handlers alone, with date patches and every completion date
NextLifecycle ==
  \/ \E wo_data \in CreateInputs : create_work_order(wo_data)
  \/ \E w \in WoIds, patch \in StatusPatches \cup DatePatches :
       update_work_order(w, patch)
  \/ \E w \in WoIds, by \in Approvers, mailer \in MailerOutcomes :
       approve_work_order(w, by, mailer)
  \/ \E w \in WoIds, c \in Dates, mailer \in MailerOutcomes :
       complete_work_order(w, c, mailer)
  \/ \E w \in WoIds : cancel_work_order(w)

SpecLifecycle == Init /\ [][NextLifecycle]_vars

\* make_decision alone, over every confidence in hundredths
NextGovernance ==
  \E m \in MachineIds, r \in GovernanceResponses : make_decision(m, r)

SpecGovernance == Init /\ [][NextGovernance]_vars

\* the email pipeline over work orders that are Draft, Approved or Cancelled
EmailStatusPatches == {[status |-> s] : s \in {"Approved", "Cancelled"}}

NextEmail ==
  \/ \E wo_data \in CreateInputs : create_work_order(wo_data)
  \/ \E w \in WoIds, patch \in EmailStatusPatches : update_work_order(w, patch)
  \/ \E subject \in Subjects, oracle \in OracleOutcomes, commit_ok \in BOOLEAN :
       extract_date_from_email(subject, oracle, commit_ok)

SpecEmail == Init /\ [][NextEmail]_vars

\* the three dispatcher operations called for stored work orders
NextDispatcher ==
  \/ \E wo_data \in CreateInputs : create_work_order(wo_data)
  \/ \E w \in WoIds, by \in Approvers, mailer \in MailerOutcomes :
       approve_work_order(w, by, mailer)
  \/ \E w \in WoIds, mailer \in MailerOutcomes :
       send_work_order_notification(w, mailer)
  \/ \E w \in WoIds, mailer \in MailerOutcomes :
       send_approval_notification(w, mailer)
  \/ \E w \in WoIds, mailer \in MailerOutcomes :
       send_completion_notification(w, mailer)

SpecDispatcher == Init /\ [][NextDispatcher]_vars

\* wo_number generation over tables that already hold one finished work order
\* of machine 1: of last year, the first or the 9999th of this year, or one
\* whose number does not end in digits
StoredNumbers ==
  {[year |-> EpochYear, digits |-> <<0, 0, 0, 7>>],
   [year |-> EpochYear + 1, digits |-> <<0, 0, 0, 1>>],
   [year |-> EpochYear + 1, digits |-> <<9, 9, 9, 9>>],
   [year |-> EpochYear + 1, digits |-> <<Letter, Letter>>]}

StoredWorkOrder(wo_number) ==
  [wo_number |-> wo_number, machine_id |-> 1, status |-> "Completed",
   priority |-> NoStr, creation_source |-> "Manual", ai_decision_id |-> NoId,
   scheduled_date |-> NoDate, completed_date |-> 0, notification_sent |-> FALSE,
   notification_sent_at |-> NoDate, approved_at |-> 0, approved_by |-> "alice"]

InitNumbering ==
  /\ today = StartDay
  /\ workflowLogs = <<>>
  /\ calls = [c \in CallIds |-> IdleCall]
  /\ machines = [m \in 1..NumMachines |->
                   [pm_frequency |-> IF m = 1 THEN "Monthly" ELSE "Yearly",
                    last_pm_date |-> NoDate,
                    next_pm_date |-> 0,
                    supplier_email |-> (m = 1)]]
  /\ \/ workOrders = <<>>
     \/ \E n \in StoredNumbers : workOrders = <<StoredWorkOrder(n)>>
  /\ woNextId = Len(workOrders) + 1
  /\ assigned = [i \in DOMAIN workOrders |-> workOrders[i].wo_number]
  /\ decisions = <<>>
  /\ history = <<>>
  /\ response = Resp("none", NoId, "none", "none", FALSE)

NextNumbering ==
  \/ \E wo_data \in CreateInputs : create_work_order(wo_data)
  \/ \E w \in WoIds : cancel_work_order(w)
  \/ \E w \in WoIds : delete_work_order(w)

SpecNumbering == InitNumbering /\ [][NextNumbering]_vars

\* the urgency classifier over every next PM date of machine 1 within
\* MaxDaysUntil days of the current day
InitUrgency ==
  /\ today = StartDay
  /\ workflowLogs = <<>>
  /\ calls = [c \in CallIds |-> IdleCall]
  /\ \E next \in (StartDay - MaxDaysUntil)..(StartDay + MaxDaysUntil) :
       machines = [m \in 1..NumMachines |->
                     [pm_frequency |-> IF m = 1 THEN "Monthly" ELSE "Yearly",
                      last_pm_date |-> NoDate,
                      next_pm_date |-> IF m = 1 THEN next ELSE 0,
                      supplier_email |-> (m = 1)]]
  /\ workOrders = <<>>
  /\ woNextId = 1
  /\ assigned = <<>>
  /\ decisions = <<>>
  /\ history = <<>>
  /\ response = Resp("none", NoId, "none", "none", FALSE)

NextUrgency == \E m \in MachineIds : get_machine(m)

SpecUrgency == InitUrgency /\ [][NextUrgency]_vars

\* the completion service on machines of every frequency, each with an
\* Approved work order
Frequencies == {"Monthly", "Bimonthly", "Quarterly", "Yearly", "Weekly"}
ScheduledOrder(m, scheduled_date) ==
  [wo_number |-> [year |-> EpochYear, digits |-> <<0, 0, 0, m>>],
   machine_id |-> m, status |-> "Approved",
   priority |-> NoStr, creation_source |-> "Manual", ai_decision_id |-> NoId,
   scheduled_date |-> scheduled_date, completed_date |-> NoDate,
   notification_sent |-> FALSE, notification_sent_at |-> NoDate,
   approved_at |-> 0, approved_by |-> "alice"]

InitSchedule ==
  /\ today \in {StartDay, LateDay}
  /\ workflowLogs = <<>>
  /\ calls = [c \in CallIds |-> IdleCall]
  /\ \E f \in [1..NumMachines -> Frequencies] :
       machines = [m \in 1..NumMachines |->
                     [pm_frequency |-> f[m],
                      last_pm_date |-> NoDate,
                      next_pm_date |-> 0,
                      supplier_email |-> (m = 1)]]
  /\ \E d \in {NoDate} \cup Dates :
       workOrders = [m \in 1..NumMachines |-> ScheduledOrder(m, d)]
  /\ woNextId = NumMachines + 1
  /\ assigned = [i \in DOMAIN workOrders |-> workOrders[i].wo_number]
  /\ decisions = <<>>
  /\ history = <<>>
  /\ response = Resp("none", NoId, "none", "none", FALSE)

NextSchedule == \E w \in WoIds : WorkOrderService_complete_work_order(w)

SpecSchedule == InitSchedule /\ [][NextSchedule]_vars

\* creation and field updates beside the completion service
NextCompletion ==
  \/ \E wo_data \in CreateInputs : create_work_order(wo_data)
  \/ \E w \in WoIds, patch \in StatusPatches : update_work_order(w, patch)
  \/ \E w \in WoIds : WorkOrderService_complete_work_order(w)

SpecCompletion == Init /\ [][NextCompletion]_vars

\* creations that overlap, beside approve and cancel
NextOverlapCreate ==
  \/ \E c \in CallIds, wo_data \in CreateInputs : create_check(c, wo_data)
  \/ \E c \in CallIds : svc_generate(c)
  \/ \E c \in CallIds : svc_insert(c)
  \/ \E w \in WoIds, by \in Approvers, mailer \in MailerOutcomes :
       approve_work_order(w, by, mailer)
  \/ \E w \in WoIds : cancel_work_order(w)

SpecOverlapCreate == Init /\ [][NextOverlapCreate]_vars

\* executions that overlap
NextOverlapExecute ==
  \/ \E m \in MachineIds, r \in OracleResponses : make_decision(m, r)
  \/ \E c \in CallIds, d \in DecisionIds, force \in BOOLEAN : exec_check(c, d, force)
  \/ \E c \in CallIds : svc_generate(c)
  \/ \E c \in CallIds : svc_insert(c)
  \/ \E c \in CallIds, mailer \in MailerOutcomes : exec_notify(c, mailer)
  \/ \E c \in CallIds : exec_mark(c)

SpecOverlapExecute == Init /\ [][NextOverlapExecute]_vars

\* the email pipeline with other requests running while it awaits the oracle
NextOverlapEmail ==
  \/ \E wo_data \in CreateInputs : create_work_order(wo_data)
  \/ \E w \in WoIds, patch \in EmailStatusPatches : update_work_order(w, patch)
  \/ \E w \in WoIds : cancel_work_order(w)
  \/ \E c \in CallIds, subject \in Subjects : email_resolve(c, subject)
  \/ \E c \in CallIds, oracle \in OracleOutcomes, commit_ok \in BOOLEAN :
       email_apply(c, oracle, commit_ok)

SpecOverlapEmail == Init /\ [][NextOverlapEmail]_vars

\* the workflow-log endpoints alone
LogIds == 1..(MaxLogs + 1)
NextWorkflowLog ==
  \/ \E input \in LogInputs : upsert_workflow_log(input)
  \/ \E l \in LogIds, input \in LogInputs : update_workflow_log(l, input)

SpecWorkflowLog == Init /\ [][NextWorkflowLog]_vars

(* ------------------------------ claims -------------------------------- *)
LinkedOrders(d) == {w \in DOMAIN workOrders : workOrders[w].ai_decision_id = d}

\* C1: once auto_executed is set on a decision it stays set, every later
\* execute_decision on it answers already_executed, changes no work order and
\* invokes no notification, and no decision ever has two work orders.
ExecuteAtMostOnce ==
  /\ [][\A d \in DOMAIN decisions :
          decisions[d].auto_executed =>
            /\ decisions'[d].auto_executed
            /\ (response'.op = "execute_decision" /\ response'.target = d) =>
                 /\ response'.result = "already_executed"
                 /\ workOrders' = workOrders
                 /\ response'.mail = "none"]_vars
  /\ [](\A d \in DOMAIN decisions : Cardinality(LinkedOrders(d)) <= 1)

\* C1 witness: a second execute of a CREATE_WORK_ORDER decision answered
\* already_executed while a further work order could still have been made
SecondExecuteSeen ==
  /\ response.op = "execute_decision"
  /\ response.result = "already_executed"
  /\ decisions[response.target].decision = "CREATE_WORK_ORDER"
  /\ Cardinality(LinkedOrders(response.target)) = 1
  /\ woNextId <= MaxWorkOrders

\* C2: executing a not yet executed decision that requires review fails with
\* ReviewRequired and changes nothing when force is false; with force it
\* passes the guard and the decision ends executed.
ReviewGuard ==
  [][\A d \in DOMAIN decisions, force \in BOOLEAN, mailer \in MailerOutcomes :
       (/\ response'.op = "execute_decision"
        /\ response'.target = d
        /\ decisions[d].requires_review
        /\ ~decisions[d].auto_executed
        /\ execute_decision(d, force, mailer)) =>
         IF ~force
         THEN /\ response'.result = "ReviewRequired"
              /\ UNCHANGED db
              /\ response'.mail = "none"
         ELSE /\ response'.result # "ReviewRequired"
              /\ decisions'[d].auto_executed
              /\ decisions[d].decision = "CREATE_WORK_ORDER" =>
                   /\ woNextId \notin DOMAIN workOrders
                   /\ woNextId \in DOMAIN workOrders'
                   /\ workOrders'[woNextId].ai_decision_id = d]_vars

\* C2 witness: a low-confidence decision refused without force
ReviewRequiredSeen ==
  /\ response.op = "execute_decision"
  /\ response.result = "ReviewRequired"
  /\ decisions[response.target].confidence = 65
  /\ ~decisions[response.target].auto_executed
  /\ LinkedOrders(response.target) = {}

\* C3: for every confidence in hundredths the stored requires_review flag is
\* (confidence < 0.70) and the reported can_auto_execute is its negation, so
\* 0.70 itself needs no review.
GovernanceFlags ==
  /\ \A d \in DOMAIN decisions :
       decisions[d].requires_review = (decisions[d].confidence < 70)
  /\ (response.op = "make_decision" /\ response.result = "decided") =>
       response.can_auto_execute = ~decisions[response.target].requires_review

\* C3 witness: a decision made with confidence exactly 0.70
ThresholdDecisionSeen ==
  /\ response.op = "make_decision"
  /\ response.result = "decided"
  /\ decisions[response.target].confidence = 70
  /\ ~decisions[response.target].requires_review
  /\ response.can_auto_execute

\* C4: each machine has at most one work order in Draft, Pending_Approval or
\* Approved.
AtMostOneOpenOrder ==
  \A m \in DOMAIN machines : Cardinality(ActiveWorkOrders(m)) <= 1

TerminalStatuses == {"Completed", "Cancelled"}

\* C5 (as claimed): once a work order is Completed or Cancelled its status
\* never changes again, whatever operation runs.
TerminalStatusFinal ==
  [][\A w \in DOMAIN workOrders :
       workOrders[w].status \in TerminalStatuses =>
         workOrders'[w].status = workOrders[w].status]_vars

\* C5 (amended): approve, complete and cancel never change the status of a
\* Completed or Cancelled work order; only an update-fields request does.
TerminalUnderTransitions ==
  [][\A w \in DOMAIN workOrders :
       (/\ workOrders[w].status \in TerminalStatuses
        /\ response'.op # "update_work_order") =>
         workOrders'[w].status = workOrders[w].status]_vars

\* C5 witness: an approve refused on a Cancelled work order
TerminalApproveRefusedSeen ==
  /\ response.op = "approve_work_order"
  /\ response.result = "InvalidState"
  /\ response.target \in DOMAIN workOrders
  /\ workOrders[response.target].status = "Cancelled"

CompleteGuard ==
  [][\A w \in DOMAIN workOrders :
       (response'.op = "complete_work_order" /\ response'.target = w) =>
         /\ workOrders[w].status # "Approved" =>
              (response'.result = "InvalidState" /\ UNCHANGED db)
         /\ response'.result = "completed" => workOrders[w].status = "Approved"]_vars

\* C7 witness: a complete refused on a Draft work order
CompleteRefusedSeen ==
  /\ response.op = "complete_work_order"
  /\ response.result = "InvalidState"
  /\ response.target \in DOMAIN workOrders
  /\ workOrders[response.target].status = "Draft"

\* a completion date the handler's two date checks let through
DateAcceptable(w, c) ==
  /\ c <= today
  /\ workOrders[w].scheduled_date # NoDate => c >= workOrders[w].scheduled_date

\* C8: complete on an Approved order with a date after today or before the
\* scheduled date is refused with InvalidCompletionDate and changes nothing;
\* any other date, today and the scheduled date included, is accepted.
CompletionDateChecked ==
  [][\A w \in DOMAIN workOrders, c \in Dates, mailer \in MailerOutcomes :
       (/\ response'.op = "complete_work_order"
        /\ response'.target = w
        /\ workOrders[w].status = "Approved"
        /\ complete_work_order(w, c, mailer)) =>
         IF DateAcceptable(w, c)
         THEN /\ response'.result = "completed"
              /\ workOrders'[w].status = "Completed"
         ELSE /\ response'.result = "InvalidCompletionDate"
              /\ UNCHANGED db]_vars

\* frequencyDays as the specification states it
SpecFrequencyDays(f) ==
  IF f = "Bimonthly" THEN 60 ELSE IF f = "Yearly" THEN 365 ELSE 30

\* C9: a complete with an acceptable date c sets the order Completed with
\* completed_date c, the machine's last_pm_date to c and its next_pm_date to
\* (scheduled_date if set, else c) + frequencyDays(pm_frequency).
CompleteRollsSchedule ==
  [][\A w \in DOMAIN workOrders, c \in Dates, mailer \in MailerOutcomes :
       (/\ response'.op = "complete_work_order"
        /\ response'.target = w
        /\ workOrders[w].status = "Approved"
        /\ DateAcceptable(w, c)
        /\ complete_work_order(w, c, mailer)) =>
         LET m == workOrders[w].machine_id
             base == IF workOrders[w].scheduled_date # NoDate
                     THEN workOrders[w].scheduled_date ELSE c
         IN /\ workOrders'[w].status = "Completed"
            /\ workOrders'[w].completed_date = c
            /\ machines'[m].last_pm_date = c
            /\ machines'[m].next_pm_date =
                 base + SpecFrequencyDays(machines[m].pm_frequency)]_vars

\* C10: a complete with an acceptable date on an Approved order appends
\* exactly one Preventive history row linked to the order and its machine;
\* every other step leaves the history as it is.
CompleteAppendsHistory ==
  [][IF \E w \in DOMAIN workOrders :
          /\ response'.op = "complete_work_order"
          /\ response'.target = w
          /\ response'.result \notin {"InvalidState", "InvalidCompletionDate"}
     THEN /\ Len(history') = Len(history) + 1
          /\ SubSeq(history', 1, Len(history)) = history
          /\ history'[Len(history')].maintenance_type = "Preventive"
          /\ history'[Len(history')].work_order_id = response'.target
          /\ history'[Len(history')].machine_id =
               workOrders[response'.target].machine_id
     ELSE history' = history]_vars

\* C11: cancel on a Draft, Pending_Approval or Approved work order sets its
\* status to Cancelled and changes no machine and no history row; cancel on a
\* Completed work order is refused with InvalidState and it stays Completed.
CancelGuard ==
  [][\A w \in DOMAIN workOrders :
       (response'.op = "cancel_work_order" /\ response'.target = w) =>
         /\ workOrders[w].status \in {"Draft", "Pending_Approval", "Approved"} =>
              /\ response'.result = "cancelled"
              /\ workOrders'[w].status = "Cancelled"
              /\ machines' = machines
              /\ history' = history
         /\ workOrders[w].status = "Completed" =>
              /\ response'.result = "InvalidState"
              /\ workOrders'[w].status = "Completed"
              /\ UNCHANGED db]_vars

\* C11 witness: a cancel refused on a Completed work order
CancelCompletedRefusedSeen ==
  /\ response.op = "cancel_work_order"
  /\ response.result = "InvalidState"
  /\ response.target \in DOMAIN workOrders
  /\ workOrders[response.target].status = "Completed"

\* the conditions under which the pipeline is said to succeed
EmailSuccessConditions(subject, oracle, commit_ok) ==
  /\ Len(subject.digits) >= 3
  /\ \E w \in DOMAIN workOrders :
       /\ workOrders[w].wo_number = extract_wo_number_from_subject(subject)
       /\ workOrders[w].status = "Approved"
  /\ oracle.kind = "answer"
  /\ oracle.confidence >= 70
  /\ oracle.selected_date.text = "iso"
  /\ oracle.selected_date.day >= today
  /\ commit_ok

\* C12: the email pipeline answers Success exactly when the subject holds a
\* work-order number, that work order exists and is Approved, the oracle
\* answered with confidence >= 0.70 and a selected date that parses and is
\* not before today, and the patch was committed; otherwise it answers Error.
EmailSuccessIff ==
  [][response'.op = "extract_date_from_email" =>
       /\ response'.result \in {"Success", "Error"}
       /\ (response'.result = "Success") <=>
            EmailSuccessConditions(response'.request[1], response'.request[2],
                                   response'.request[3])]_vars

\* C12 witness: a Success with confidence exactly 0.70 and the date today
EmailSuccessAtLimitsSeen ==
  /\ response.op = "extract_date_from_email"
  /\ response.result = "Success"
  /\ response.confidence = 70
  /\ response.extracted_date = today
  /\ workOrders[response.target].scheduled_date = today

\* C13: one request calls the oracle at most once, and only after a number
\* was extracted, the work order was found and its status was Approved; in
\* the other cases it answers Error without calling the oracle.
OracleCalledLast ==
  [][response'.op = "extract_date_from_email" =>
       LET subject == response'.request[1]
           resolved == {w \in DOMAIN workOrders :
                          /\ Len(subject.digits) >= 3
                          /\ workOrders[w].wo_number =
                               extract_wo_number_from_subject(subject)}
       IN /\ response'.oracle_calls <= 1
          /\ response'.oracle_calls = 1 =>
               \E w \in resolved : workOrders[w].status = "Approved"
          /\ (\A w \in resolved : workOrders[w].status # "Approved") =>
               (response'.result = "Error" /\ response'.oracle_calls = 0)]_vars

\* C13 witness: an email about a Draft work order answered Error without a
\* call to the oracle
EmailDraftRefusedSeen ==
  /\ response.op = "extract_date_from_email"
  /\ response.result = "Error"
  /\ response.message = "status_mismatch"
  /\ response.oracle_calls = 0
  /\ workOrders[response.target].status = "Draft"

DispatcherOps ==
  {"send_work_order_notification", "send_approval_notification",
   "send_completion_notification"}

\* C15: each of the three dispatcher operations returns false when the
\* machine has no supplier email, when the mailer is not configured and when
\* the mailer reports a transport error, and true only when the mailer took
\* the message; it always returns.
DispatcherFailsSoft ==
  response.op \in DispatcherOps =>
    LET m == workOrders[response.target].machine_id
        mailer == response.request[1]
    IN /\ response.result \in {"sent", "not_sent"}
       /\ (response.result = "sent") = response.sent
       /\ ~machines[m].supplier_email => ~response.sent
       /\ mailer \in {"unconfigured", "transport_error"} => ~response.sent
       /\ response.sent => mailer = "accepted"

\* C15 witness: a completion notification for a machine without a supplier
\* email, not sent although the mailer would have taken it
NoAddressNotSentSeen ==
  /\ response.op = "send_completion_notification"
  /\ response.request = <<"accepted">>
  /\ ~machines[workOrders[response.target].machine_id].supplier_email
  /\ ~response.sent

\* C16: a dispatcher result of false blocks no transition: an approve that
\* passes its guard ends Approved, a complete that passes its guards ends
\* Completed with the machine's schedule rolled forward and one history row
\* appended, and notification_sent keeps its value.
SentFalseNeverBlocks ==
  [][\A w \in DOMAIN workOrders :
       /\ (/\ response'.op = "approve_work_order"
           /\ response'.target = w
           /\ response'.result # "InvalidState"
           /\ ~response'.sent) =>
            /\ workOrders'[w].status = "Approved"
            /\ workOrders'[w].notification_sent = workOrders[w].notification_sent
       /\ (/\ response'.op = "complete_work_order"
           /\ response'.target = w
           /\ response'.result \notin {"InvalidState", "InvalidCompletionDate"}
           /\ ~response'.sent) =>
            /\ workOrders'[w].status = "Completed"
            /\ workOrders'[w].notification_sent = workOrders[w].notification_sent
            /\ machines'[workOrders[w].machine_id].last_pm_date =
                 workOrders'[w].completed_date
            /\ Len(history') = Len(history) + 1]_vars

\* the sequence number a wo_number of the current year should get: 1 when
\* the year has no work order or the number read is malformed, else one plus
\* the highest sequence of the year
HighestSeq(year) ==
  LET seqs == {ParseInt(workOrders[w].wo_number.digits) :
                 w \in {v \in SameYear(year) :
                          IsNumeral(workOrders[v].wo_number.digits)}}
  IN CHOOSE n \in seqs : \A k \in seqs : k <= n

ExpectedSeq(year) ==
  IF SameYear(year) = {} THEN 1
  ELSE IF ~IsNumeral(workOrders[latest_wo(year)].wo_number.digits) THEN 1
  ELSE HighestSeq(year) + 1

\* C17: a create_work_order that gets as far as generating a number
\* generates WO-{year}-{seq:04d} with seq one plus the highest sequence of
\* the current year's work orders, 1 when the year has none or the number
\* read is malformed; a work order it creates is stored under that number.
NumberIsNextOfYear ==
  [][(/\ response'.op = "create_work_order"
      /\ response'.result \notin {"NotFound", "ConflictActiveOrder"}) =>
       /\ generate_wo_number =
            [year |-> YearOf(today), digits |-> FormatSeq(ExpectedSeq(YearOf(today)))]
       /\ response'.result = "created" =>
            workOrders'[response'.target].wo_number = generate_wo_number]_vars

\* C18: a number given to a new work order has a higher sequence than every
\* number given before in the same year, so no number is given twice, and no
\* two stored work orders share a number.
NumbersNeverReused ==
  /\ [][Len(assigned') > Len(assigned) =>
          LET n == assigned'[Len(assigned')]
          IN \A i \in 1..Len(assigned) :
               /\ assigned[i] # n
               /\ (assigned[i].year = n.year /\ IsNumeral(assigned[i].digits)) =>
                    ParseInt(assigned[i].digits) < ParseInt(n.digits)]_vars
  /\ [](\A v, w \in DOMAIN workOrders :
          workOrders[v].wo_number = workOrders[w].wo_number => v = w)

\* C19: the urgency classifier answers overdue for every daysUntil < 0,
\* due_soon for every 0 <= daysUntil <= 30 and ok for every daysUntil > 30,
\* where daysUntil = next_pm_date - today.
UrgencyClassified ==
  (response.op = "get_machine" /\ response.result = "found") =>
    LET daysUntil == machines[response.target].next_pm_date - today
    IN /\ response.days_until_pm = daysUntil
       /\ response.pm_status \in {"overdue", "due_soon", "ok"}
       /\ daysUntil < 0 => response.pm_status = "overdue"
       /\ (0 <= daysUntil /\ daysUntil <= 30) => response.pm_status = "due_soon"
       /\ daysUntil > 30 => response.pm_status = "ok"

\* C19 witness: a machine whose next PM is exactly 30 days away is due_soon
DueSoonAt30Seen ==
  /\ response.op = "get_machine"
  /\ response.result = "found"
  /\ response.days_until_pm = 30
  /\ response.pm_status = "due_soon"

\* C20: once an AIDecision is stored no operation changes its decision,
\* priority, confidence, explanation, requires_review or machine; only
\* auto_executed changes, and only from false to true.
DecisionImmutable ==
  [][\A d \in DOMAIN decisions :
       /\ d \in DOMAIN decisions'
       /\ decisions'[d] =
            [decisions[d] EXCEPT !.auto_executed = decisions'[d].auto_executed]
       /\ decisions[d].auto_executed => decisions'[d].auto_executed]_vars

\* C20 witness: a decision that required review was executed with force and
\* still requires review
ForcedExecutionSeen ==
  /\ response.op = "execute_decision"
  /\ response.result \notin {"NotFound", "already_executed", "ReviewRequired"}
  /\ decisions[response.target].auto_executed
  /\ decisions[response.target].requires_review
  /\ decisions[response.target].confidence = 65

\* C21: make_decision for a machine that does not exist fails with NotFound
\* without calling the oracle; when the oracle's answer has a decision or a
\* priority outside the enumerations, no confidence or a confidence outside
\* [0,1], it fails with OracleError; in both cases nothing stored changes.
OracleErrorsStoreNothing ==
  [][response'.op = "make_decision" =>
       IF response'.request[1] \notin DOMAIN machines
       THEN /\ response'.result = "NotFound"
            /\ response'.oracle_calls = 0
            /\ UNCHANGED db
       ELSE LET raw == response'.request[2]
            IN (\/ raw.decision \notin {"CREATE_WORK_ORDER", "WAIT", "SEND_NOTIFICATION"}
                \/ raw.priority \notin {"Low", "Medium", "High"}
                \/ ~raw.confidence_present
                \/ raw.confidence < 0
                \/ raw.confidence > 1000) =>
                 (response'.result = "OracleError" /\ UNCHANGED db)]_vars

\* C21 witness: an answer with confidence 1.001 refused, nothing stored
OracleErrorSeen ==
  /\ response.op = "make_decision"
  /\ response.result = "OracleError"
  /\ response.request[2].confidence = 1001
  /\ decisions = <<>>

\* C22: a make_decision that succeeds appends exactly one AIDecision row,
\* not executed, with the oracle's decision and priority and the oracle's
\* confidence to two decimals, for the machine asked about; it changes no
\* work order, machine or history row and invokes no notification.
DecisionStoredAsAnswered ==
  [][(response'.op = "make_decision" /\ response'.result = "decided") =>
       LET raw == response'.request[2]
           row == decisions'[Len(decisions')]
       IN /\ Len(decisions') = Len(decisions) + 1
          /\ SubSeq(decisions', 1, Len(decisions)) = decisions
          /\ response'.target = Len(decisions')
          /\ ~row.auto_executed
          /\ row.machine_id = response'.request[1]
          /\ row.decision = raw.decision
          /\ row.priority = raw.priority
          /\ row.explanation = raw.explanation
          /\ 10 * row.confidence - 5 < raw.confidence
          /\ raw.confidence < 10 * row.confidence + 5
          /\ UNCHANGED <<machines, workOrders, woNextId, history>>
          /\ response'.mail = "none"]_vars

\* C22 witness: a decision stored with confidence 0.70 for an answer of 0.696
\* while the machine has a work order
DecisionBesideOrderSeen ==
  /\ response.op = "make_decision"
  /\ response.result = "decided"
  /\ response.request[2].confidence = 696
  /\ decisions[response.target].confidence = 70
  /\ ActiveWorkOrders(decisions[response.target].machine_id) # {}

\* C23: executing a CREATE_WORK_ORDER decision d that is not yet executed and
\* passes the review guard creates exactly one new work order, with
\* creation_source AI, status Pending_Approval, d's priority, ai_decision_id d
\* and d's machine, and sets d.auto_executed.
ExecuteCreatesAIOrder ==
  [][(/\ response'.op = "execute_decision"
      /\ response'.request[1] \in DOMAIN decisions
      /\ ~decisions[response'.request[1]].auto_executed
      /\ decisions[response'.request[1]].decision = "CREATE_WORK_ORDER"
      /\ (response'.request[2] \/ ~decisions[response'.request[1]].requires_review)) =>
       LET d == response'.request[1]
           created == DOMAIN workOrders' \ DOMAIN workOrders
       IN /\ response'.result = "work_order_created"
          /\ Cardinality(created) = 1
          /\ \A w \in DOMAIN workOrders : workOrders'[w] = workOrders[w]
          /\ \A w \in created :
                /\ workOrders'[w].creation_source = "AI"
                /\ workOrders'[w].status = "Pending_Approval"
                /\ workOrders'[w].priority = decisions[d].priority
                /\ workOrders'[w].ai_decision_id = d
                /\ workOrders'[w].machine_id = decisions[d].machine_id
          /\ decisions'[d].auto_executed]_vars

\* C23 witness: a forced execution of a low-confidence CREATE_WORK_ORDER
\* decision has created the order
ForcedCreateSeen ==
  /\ response.op = "execute_decision"
  /\ response.result = "work_order_created"
  /\ response.request[2]
  /\ decisions[response.target].requires_review
  /\ response.work_order_id \in DOMAIN workOrders

\* C24: executing a SEND_NOTIFICATION decision whose machine has no work
\* order in Draft, Pending_Approval or Approved fails: nothing is sent and
\* the decision's auto_executed stays false.
NoWorkOrderKeepsDecisionOpen ==
  [][(/\ response'.op = "execute_decision"
      /\ response'.request[1] \in DOMAIN decisions
      /\ ~decisions[response'.request[1]].auto_executed
      /\ decisions[response'.request[1]].decision = "SEND_NOTIFICATION"
      /\ (response'.request[2] \/ ~decisions[response'.request[1]].requires_review)
      /\ ActiveWorkOrders(decisions[response'.request[1]].machine_id) = {}) =>
       /\ response'.result = "error_no_work_order"
       /\ response'.mail = "none"
       /\ ~response'.sent
       /\ ~decisions'[response'.request[1]].auto_executed]_vars

\* C25: a SEND_NOTIFICATION execution notifies about an order of the
\* decision's machine that is Approved, or that is Pending_Approval or Draft
\* when the machine has no Approved order; never about another order.
NotifiesApprovedFirst ==
  [][(/\ response'.op = "execute_decision"
      /\ response'.mail # "none") =>
       LET d == response'.request[1]
           w == response'.work_order_id
       IN /\ w \in DOMAIN workOrders
          /\ workOrders[w].machine_id = decisions[d].machine_id
          /\ \/ workOrders[w].status = "Approved"
             \/ /\ workOrders[w].status \in {"Pending_Approval", "Draft"}
                /\ \A v \in DOMAIN workOrders :
                      workOrders[v].machine_id = decisions[d].machine_id
                        => workOrders[v].status # "Approved"
          /\ \A v \in DOMAIN workOrders \ {w} : workOrders'[v] = workOrders[v]]_vars

\* C25 witness: the Approved order was notified about while the machine also
\* had a Draft order
ApprovedPreferredSeen ==
  /\ response.op = "execute_decision"
  /\ response.mail = "approval"
  /\ response.work_order_id \in DOMAIN workOrders
  /\ \E v \in DOMAIN workOrders :
       /\ v # response.work_order_id
       /\ workOrders[v].machine_id = workOrders[response.work_order_id].machine_id
       /\ workOrders[v].status = "Draft"

\* C26: a manual creation for a machine that has a work order in Draft,
\* Pending_Approval or Approved is rejected with ConflictActiveOrder; the
\* work orders and the wo_number sequence stay as they were.
ConflictCreatesNothing ==
  [][(/\ response'.op = "create_work_order"
      /\ \E w \in DOMAIN workOrders :
           /\ workOrders[w].machine_id = response'.request[1].machine_id
           /\ workOrders[w].status \in {"Draft", "Pending_Approval", "Approved"}) =>
       /\ response'.result = "ConflictActiveOrder"
       /\ UNCHANGED <<workOrders, woNextId, assigned>>]_vars

\* C26 witness: a creation refused for a machine whose order is Approved
ConflictOnApprovedSeen ==
  /\ response.op = "create_work_order"
  /\ response.result = "ConflictActiveOrder"
  /\ \E w \in DOMAIN workOrders :
       /\ workOrders[w].machine_id = response.request[1].machine_id
       /\ workOrders[w].status = "Approved"

\* C27: a successful approve by a stamps approved_by = a and approved_at,
\* calls the dispatcher once with the approval template, sets
\* notification_sent and its timestamp when the send returned true and
\* leaves them as they were when it returned false.
ApproveStampsAndNotifies ==
  [][(response'.op = "approve_work_order" /\ response'.result = "approved") =>
       LET w == response'.request[1]
       IN /\ workOrders'[w].approved_by = response'.request[2]
          /\ workOrders'[w].approved_at = today
          /\ response'.mail = "approval"
          /\ IF response'.sent
             THEN /\ workOrders'[w].notification_sent
                  /\ workOrders'[w].notification_sent_at = today
             ELSE /\ workOrders'[w].notification_sent = workOrders[w].notification_sent
                  /\ workOrders'[w].notification_sent_at =
                       workOrders[w].notification_sent_at]_vars

\* C27 witness: an approval whose mail was not sent left the order unmarked
ApprovedUnsentSeen ==
  /\ response.op = "approve_work_order"
  /\ response.result = "approved"
  /\ ~response.sent
  /\ workOrders[response.target].approved_by = "alice"
  /\ ~workOrders[response.target].notification_sent

\* C28: an upsert whose executionId matches an existing log changes only the
\* fields the caller provided: the omitted ones among status, the three
\* counts, errors, execution time and completedAt keep their stored values,
\* and workflow_name, execution_id and started_at never change.
UpsertKeepsOmittedFields ==
  [][(response'.op = "upsert_workflow_log" /\ response'.result = "updated") =>
       LET l == response'.target
           provided == response'.request[1].fields_set
       IN /\ \A f \in {"status", "machines_processed", "work_orders_created",
                        "notifications_sent", "errors", "execution_time_ms",
                        "completed_at"} \ provided :
                workflowLogs'[l][f] = workflowLogs[l][f]
          /\ workflowLogs'[l].workflow_name = workflowLogs[l].workflow_name
          /\ workflowLogs'[l].execution_id = workflowLogs[l].execution_id
          /\ workflowLogs'[l].started_at = workflowLogs[l].started_at]_vars

FirstFailingStageReported ==
  [][(/\ response'.op = "extract_date_from_email"
      /\ response'.request[2].kind # "malformed") =>
       LET subject == response'.request[1]
           oracle == response'.request[2]
           commit_ok == response'.request[3]
           confidence == IF oracle.kind = "failure" THEN 0 ELSE oracle.confidence
           resolved == {w \in DOMAIN workOrders :
                          workOrders[w].wo_number =
                            extract_wo_number_from_subject(subject)}
           stage == IF Len(subject.digits) < 3 THEN "no_wo_number"
                    ELSE IF resolved = {} THEN "not_found"
                    ELSE IF \E w \in resolved : workOrders[w].status # "Approved"
                         THEN "status_mismatch"
                    ELSE IF confidence < 70 THEN "low_confidence"
                    ELSE IF oracle.selected_date.text = "null" THEN "no_date"
                    ELSE IF \/ oracle.selected_date.text # "iso"
                            \/ oracle.selected_date.day < today
                         THEN "invalid_date"
                    ELSE IF ~commit_ok THEN "internal_error"
                    ELSE "updated"
       IN /\ response'.message = stage
          /\ (response'.result = "Error") <=> (stage # "updated")
          /\ stage \in {"no_wo_number", "not_found", "status_mismatch"} =>
               response'.oracle_calls = 0
          /\ stage # "updated" => UNCHANGED db]_vars

\* C30 witness: an answer with confidence 0.69 and no date was refused for
\* its confidence
LowConfidenceBeforeNoDateSeen ==
  /\ response.op = "extract_date_from_email"
  /\ response.message = "low_confidence"
  /\ response.request[2].kind = "answer"
  /\ response.request[2].confidence = 69
  /\ response.request[2].selected_date.text = "null"

\* C35: a SEND_NOTIFICATION execution that found a work order but whose mail
\* was not sent still marks the decision auto_executed; every later execute
\* of that decision answers already_executed and sends nothing.
FailedNotificationConsumesDecision ==
  [][response'.op = "execute_decision" =>
       LET d == response'.request[1]
       IN /\ response'.result = "notification_failed" =>
               /\ ~response'.sent
               /\ response'.work_order_id \in DOMAIN workOrders
               /\ workOrders' = workOrders
               /\ decisions'[d].auto_executed
          /\ (/\ d \in DOMAIN decisions
              /\ decisions[d].decision = "SEND_NOTIFICATION"
              /\ decisions[d].auto_executed) =>
               /\ response'.result = "already_executed"
               /\ response'.mail = "none"
               /\ UNCHANGED db]_vars

\* C35 witness: the mail for an existing order failed and the decision is
\* marked executed
FailedNotificationExecutedSeen ==
  /\ response.op = "execute_decision"
  /\ response.result = "notification_failed"
  /\ response.mail # "none"
  /\ ~workOrders[response.work_order_id].notification_sent
  /\ decisions[response.target].auto_executed

\* C38: after any sequence of upserts at most one WorkflowLog row exists per
\* non-null execution_id, a repeated execution_id updating the existing row,
\* while every upsert without an execution_id inserts a new row.
OneLogPerExecutionId ==
  /\ [](\A l, k \in DOMAIN workflowLogs :
          (l # k /\ workflowLogs[l].execution_id # NoStr) =>
            workflowLogs[l].execution_id # workflowLogs[k].execution_id)
  /\ [][response'.op = "upsert_workflow_log" =>
          IF response'.request[1].execution_id = NoStr
          THEN /\ response'.result = "created"
               /\ Len(workflowLogs') = Len(workflowLogs) + 1
          ELSE (\E l \in DOMAIN workflowLogs :
                  workflowLogs[l].execution_id = response'.request[1].execution_id) =>
                 /\ response'.result = "updated"
                 /\ Len(workflowLogs') = Len(workflowLogs)]_vars

FutureScheduleBlocksComplete ==
  [][\A w \in DOMAIN workOrders :
       (/\ workOrders[w].status = "Approved"
        /\ workOrders[w].scheduled_date # NoDate
        /\ workOrders[w].scheduled_date > today
        /\ response'.target = w) =>
         /\ response'.op = "complete_work_order" =>
              /\ response'.result = "InvalidCompletionDate"
              /\ \/ response'.request[2] > today
                 \/ response'.request[2] < workOrders[w].scheduled_date
              /\ UNCHANGED db
         /\ response'.op = "cancel_work_order" =>
              /\ response'.result = "cancelled"
              /\ workOrders'[w].status = "Cancelled"]_vars

\* C37 witness: completing today an Approved order scheduled for tomorrow was
\* refused
CompleteBeforeScheduleRefusedSeen ==
  /\ response.op = "complete_work_order"
  /\ response.result = "InvalidCompletionDate"
  /\ response.request[2] = today
  /\ workOrders[response.target].status = "Approved"
  /\ workOrders[response.target].scheduled_date > today

\* the open work orders of a machine and the creations in flight for it
OpenOrders(m) ==
  {w \in DOMAIN workOrders :
     /\ workOrders[w].machine_id = m
     /\ workOrders[w].status \in {"Draft", "Pending_Approval", "Approved"}}
CreationsInFlight(m) ==
  {c \in CallIds : /\ calls[c].op = "create_work_order"
                   /\ calls[c].pc # "idle"
                   /\ calls[c].wo_data.machine_id = m}

\* C32: the active-order check of a manual creation is a read, followed by
\* a separate number generation and an insert that does not look again: a
\* creation passes the check only when the machine has no open order at that
\* moment, and a machine has at most as many open orders as creations can
\* overlap; two overlapping creations leave it with two.
CreateChecksThenActs ==
  /\ [][\A c \in CallIds :
          (calls[c].pc = "idle" /\ calls'[c].pc # "idle") =>
            /\ calls'[c].pc = "generate"
            /\ OpenOrders(calls'[c].wo_data.machine_id) = {}
            /\ UNCHANGED db]_vars
  /\ [][\A c \in CallIds :
          (calls[c].pc = "insert" /\ calls'[c].pc = "idle"
           /\ response'.result = "created") =>
            /\ response'.target \notin DOMAIN workOrders
            /\ workOrders'[response'.target].machine_id = calls[c].wo_data.machine_id
            /\ workOrders'[response'.target].wo_number = calls[c].wo_number]_vars
  /\ [](\A m \in DOMAIN machines :
          Cardinality(OpenOrders(m)) + Cardinality(CreationsInFlight(m))
            <= MaxCalls)

\* C32 witness: two manual creations have both committed and the machine has
\* two open work orders
TwoOpenOrdersSeen ==
  \E w, v \in DOMAIN workOrders :
    /\ w # v
    /\ workOrders[w].machine_id = workOrders[v].machine_id
    /\ workOrders[w].creation_source = "Manual"
    /\ workOrders[v].creation_source = "Manual"
    /\ workOrders[w].status = "Draft"
    /\ workOrders[v].status \in {"Draft", "Approved"}
    /\ response.op = "create_work_order"
    /\ response.result = "created"

\* C31: execute_decision reads auto_executed, performs the side effect and
\* only afterwards writes auto_executed = true, with no lock: a call passes
\* the check only if the flag was false when it read it, the flag is written
\* only by a call whose side effect is done, and a call that has passed the
\* check inserts its work order whatever the flag has become; two overlapping
\* calls on one CREATE_WORK_ORDER decision create two work orders.
ExecuteChecksThenActs ==
  /\ [][\A c \in CallIds :
          (calls[c].pc = "idle" /\ calls'[c].pc # "idle") =>
            /\ ~decisions[calls'[c].d].auto_executed
            /\ UNCHANGED db]_vars
  /\ [][\A d \in DOMAIN decisions :
          (~decisions[d].auto_executed /\ decisions'[d].auto_executed) =>
            \E c \in CallIds :
              /\ calls[c].pc = "mark"
              /\ calls[c].d = d
              /\ calls'[c].pc = "idle"
              /\ decisions[d].decision = "CREATE_WORK_ORDER" =>
                   (calls[c].w \in DOMAIN workOrders
                    /\ workOrders[calls[c].w].ai_decision_id = d)]_vars
  /\ [][\A w \in DOMAIN workOrders' \ DOMAIN workOrders :
          \E c \in CallIds :
            /\ calls[c].pc = "insert"
            /\ calls[c].op = "execute_decision"
            /\ workOrders'[w].ai_decision_id = calls[c].d
            /\ calls'[c].pc = "mark"]_vars

\* C31 witness: one decision has two work orders
TwoOrdersForDecisionSeen ==
  \E d \in DOMAIN decisions :
    /\ decisions[d].decision = "CREATE_WORK_ORDER"
    /\ decisions[d].auto_executed
    /\ Cardinality(LinkedOrders(d)) = 2

\* C34: the email pipeline patches scheduled_date only on a work order that
\* is Approved at the moment of the patch, also when another request has
\* cancelled the order while the oracle call was pending.
EmailPatchesApprovedOnly ==
  [][\A w \in DOMAIN workOrders :
       (/\ response'.op = "extract_date_from_email"
        /\ workOrders'[w].scheduled_date # workOrders[w].scheduled_date) =>
         workOrders[w].status = "Approved"]_vars
====
